---- MODULE Spec2Model ----
(***************************************************************************)
(* Model of instagrapi/story.py: StoryBuilder.__init__, build_main, video  *)
(* and photo.                                                              *)
(*                                                                         *)
(* Units.  Pixel coordinates are kept in half pixels (the value times 2),  *)
(* because the code halves integers ((720 - w) / 2, h / 2) and the result  *)
(* must stay exact.  Sticker coordinates are kept in units of 1e-7, the    *)
(* resolution of round(_, 7).  Durations are whole seconds.                *)
(*                                                                         *)
(* font, fontsize, color, link_fontsize, link_color, link_bg_color,        *)
(* link_fadein, link_sticker_z and link_sticker_rotation are passed        *)
(* through to the text collaborator or to the sticker unchanged and take   *)
(* part in no decision of build_main; the size of a rendered text element, *)
(* which is all they influence, is a nondeterministic input here.          *)
(***************************************************************************)
EXTENDS Integers, Sequences, FiniteSets, TLC

\* None, for values that are strings or mention names
None == "None"
\* None, for values that are objects
Nil == [nil |-> TRUE]
\* Optional[float]: <<>> is None, <<v>> is the number v
Some(v) == <<v>>

\* ---------------------------------------------------------------- bounds
MaxDuration == 64      \* longest timeline of the segmentation runs

\* ------------------------------------------------------ program constants
width == 720
height == 1280
SegLen == 15
CaptionMaxWidth == 600
DefaultLinkClipWidth == 400
Pow7 == 10000000

\* ------------------------------------------------------------ arithmetic
RECURSIVE GCD(_, _)
GCD(a, b) == IF b = 0 THEN a ELSE GCD(b, a % b)

\* round(v / dim, 7) for v = v2 / 2 pixels, in units of 1e-7.  The exact
\* quotient is v2 * num / den.  Python rounds the double nearest to v / dim,
\* so when the exact quotient lies half way between two multiples of 1e-7
\* either neighbour can come out; both are returned.
Round7(v2, dim) ==
  LET g   == GCD(Pow7, 2 * dim)
      num == Pow7 \div g
      den == (2 * dim) \div g
      q   == (2 * v2 * num + den) \div (2 * den)
  IN  IF (2 * v2 * num + den) % (2 * den) = 0 THEN {q - 1, q} ELSE {q}

\* ------------------------------------------------- layout (lines 123-147)
ClipLeft(size) == width - size[1]

\* ClipTop with the nudge already taken at a margin of exactly 90
ClipTop_Ge(size) ==
  LET t == height - size[2] IN IF t >= 180 THEN t - 100 ELSE t

ClipTop(size) ==
  LET t == height - size[2] IN IF t > 180 THEN t - 100 ELSE t

CaptionPosTop(top, size) == top + 2 * size[2] + 100

\* ----------------------------------------------- link text (lines 151-192)
\* urlparse(link).netloc for the links of the model
Netloc(l) == IF l = "https://example.com/x" THEN "example.com" ELSE ""

LinkText(l) == IF Netloc(l) # "" THEN Netloc(l) ELSE l

\* LinkLeft with the default halved once more
LinkLeft_Half(left, lwidth) ==
  IF left = <<>> THEN (width - lwidth) \div 2 ELSE left[1]

LinkLeft(left, lwidth) == IF left = <<>> THEN width - lwidth ELSE left[1]

LinkTop(top, size) == IF top = <<>> THEN size[2] ELSE top[1]

StickerXs(left) == Round7(left, width)

StickerYs(top) == Round7(top, height)

\* StickerWidths from the width asked for instead of the element's
StickerWidths_Wide(elem, lwidth) == Round7(2 * lwidth, width)

StickerWidths(elem, lwidth) == Round7(2 * elem.size[1], width)

StickerHeights(elem) == Round7(2 * elem.size[2], height)

\* ------------------------------------------- segmentation (lines 208-218)
SegCount(d) == d \div SegLen + (IF d % SegLen # 0 THEN 1 ELSE 0)

\* SegStart counting the segments from 1
SegStart_Next(k) == (k + 1) * SegLen

SegStart(k) == k * SegLen

\* SegEnd without the shorter last segment
SegEnd_Full(start, d) == start + SegLen

SegEnd(start, d) ==
  LET rest == d - start IN start + (IF rest < SegLen THEN rest ELSE SegLen)

\* ------------------------------------------------ wrappers (lines 245-281)
\* PhotoMaxDuration with another default display time
PhotoMaxDuration_Ten(m) == IF m # 0 THEN m ELSE 10

\* max_duration or 15
PhotoMaxDuration(m) == IF m # 0 THEN m ELSE 15

\* video() hands max_duration on as it is
VideoMaxDuration(m) == m

\* int(float(image_height) * (720 / float(image_width)))
HeightInRatio(isize) == (isize[2] * width) \div isize[1]

\* BackgroundExists with the check left out
BackgroundExists_Any(bg) == TRUE

\* self.bgpath.exists(): bg.png is the one background file there is
BackgroundExists(bg) == bg = "bg.png"

\* MentionsOut without the test of text_clip
MentionsOut_NoClip(m, tc) == IF m # None THEN <<m>> ELSE <<>>

\* mentions = [] ; if mention and text_clip: ... mentions = [mention]
MentionsOut(m, tc) == IF m # None /\ tc # Nil THEN <<m>> ELSE <<>>

\* -------------------------------- helpers build_main calls but story.py
\* does not define; taken from the specification
Usernames == [m1 |-> "alice", m2 |-> "bob"]

GetCaptionText(caption, m) ==
  IF caption # "" THEN caption ELSE IF m # None THEN "@" \o Usernames[m] ELSE ""

CalculateDuration(c, m) ==
  IF m > 0 THEN m ELSE IF c.kind = "video" THEN c.duration ELSE 15

\* the rectangle of the rendered caption the mention is aligned to
MentionGeometry(tc) ==
  IF tc = Nil THEN Nil ELSE [top |-> tc.pos_top, size |-> tc.size]

\* mention.<geometry> = ... inside _adjust_mention_geometry: an update of the
\* mention object itself, since build_main drops the helper's return value
\* and returns the object it passed in
AdjustMentionGeometry(heap, m, tc) == [heap EXCEPT ![m] = MentionGeometry(tc)]

\* sizes the text collaborator may give an element of at most max_width
TextSizes(max_width) == {<<max_width, 40>>, <<max_width \div 2, 97>>}

\* _create_text_clip: the element, or None when none was produced
CreateTextClip(text, max_width, pos_left, pos_top) ==
  {Nil} \cup {[size |-> s, pos_left |-> pos_left, pos_top |-> pos_top] :
                 s \in TextSizes(max_width)}

\* ------------------------------------------------------------ input sets
Mentions == {"m1", "m2"}
VideoA == [kind |-> "video", size |-> <<720, 1280>>, duration |-> 10]
VideoB == [kind |-> "video", size |-> <<640, 360>>, duration |-> 31]
\* an image has no duration; the field is never read for one
ImageA == [kind |-> "image", size |-> <<1440, 2000>>, duration |-> 0]
Files == {VideoA, VideoB, ImageA}
Captions == {"", "hello"}
\* the mentions argument of __init__: None, or a list
MentionArgs == {<<>>, Some(<<"m1">>), Some(<<"m1", "m2">>)}
BgArgs == {None, "", "bg.png", "nobg.png"}
MaxDurationArgs == {-5, 0, 10, 31}
Links == {"", "https://example.com/x", "not a url"}

\* ----------------------------------------------------------------- state
VARIABLES
  builder,         \* the StoryBuilder: path, caption, mentions, bgpath
  heap,            \* StoryMention objects: mention |-> its geometry
  pc,              \* position of the running call; "idle" between calls
  entry,           \* "video" or "photo", or "build_main" for a direct call
  handle,          \* the source media file handle of the call
  called,          \* the arguments as the caller gave them
  clip, max_duration, link, link_clip_left, link_clip_top, link_clip_width,
  clips, stickers, clip_left, clip_top, mention, caption_text, text_clip,
  link_clip_obj, mentions, duration, destination, paths, i,
  renders,         \* write_videofile calls of the running call, in order
  result,          \* the StoryBuild the last call returned, or None
  error,           \* the exception the last call raised, or None
  keeps,           \* the caller holds on to the first StoryBuild it gets
  first            \* that StoryBuild, as its caller holds it

args == <<clip, max_duration, link, link_clip_left, link_clip_top,
          link_clip_width>>
locals == <<clips, stickers, clip_left, clip_top, mention, caption_text,
            text_clip, link_clip_obj, mentions, duration, destination,
            paths, i>>
vars == <<builder, heap, pc, entry, handle, called, args, locals, renders,
          result, error, keeps, first>>

Called(m, left, top) == [max_duration |-> m, left |-> left, top |-> top]

FreshLocals ==
  /\ clips = <<>> /\ stickers = <<>> /\ clip_left = 0 /\ clip_top = 0
  /\ mention = None /\ caption_text = "" /\ text_clip = Nil
  /\ link_clip_obj = Nil /\ mentions = <<>> /\ duration = 0
  /\ destination = 0 /\ paths = <<>> /\ i = 0

NoCall ==
  /\ pc = "idle" /\ entry = None /\ handle = None
  /\ called = Nil
  /\ clip = Nil /\ max_duration = 0 /\ link = ""
  /\ link_clip_left = <<>> /\ link_clip_top = <<>>
  /\ link_clip_width = DefaultLinkClipWidth
  /\ FreshLocals
  /\ renders = <<>> /\ result = Nil /\ error = None

Init ==
  /\ builder = Nil
  /\ heap = [m \in Mentions |-> Nil]
  /\ NoCall
  /\ keeps = FALSE
  /\ first = Nil

\* the frame of build_main before its first statement
Fresh ==
  /\ clips' = <<>> /\ stickers' = <<>> /\ clip_left' = 0
  /\ clip_top' = 0 /\ mention' = None /\ caption_text' = ""
  /\ text_clip' = Nil /\ link_clip_obj' = Nil /\ mentions' = <<>>
  /\ duration' = 0 /\ destination' = 0 /\ paths' = <<>> /\ i' = 0
  /\ renders' = <<>> /\ result' = Nil /\ error' = None

\* ----------------------------------------------- __init__ (lines 47-52)
\* The caller is done with the call before: its frame and outcome are gone.
New(path, caption, ms, bgpath) ==
  /\ pc = "idle"
  /\ builder' = [path |-> path, caption |-> caption,
                 mentions |-> IF ms = <<>> THEN <<>> ELSE ms[1],
                 bgpath |-> IF bgpath \in {None, ""} THEN None ELSE bgpath]
  /\ entry' = None /\ handle' = None /\ called' = Nil
  /\ clip' = Nil /\ max_duration' = 0
  /\ link' = "" /\ link_clip_left' = <<>> /\ link_clip_top' = <<>>
  /\ link_clip_width' = DefaultLinkClipWidth
  /\ Fresh
  /\ UNCHANGED <<heap, pc, keeps, first>>

\* video(), lines 245-246: open the source, enter build_main
VideoCall(m, l) ==
  /\ pc = "idle" /\ builder # Nil /\ builder.path.kind = "video"
  /\ entry' = "video"
  /\ called' = Called(m, <<>>, <<>>)
  /\ handle' = "open"
  /\ clip' = builder.path
  /\ max_duration' = VideoMaxDuration(m)
  /\ link' = l
  /\ link_clip_left' = <<>> /\ link_clip_top' = <<>>
  /\ link_clip_width' = DefaultLinkClipWidth
  /\ Fresh
  /\ pc' = "background"
  /\ UNCHANGED <<builder, heap, keeps, first>>

\* photo(), lines 274-281: the image file is opened and closed again by the
\* with block; the ImageClip holds the pixels, not the file
PhotoCall(m, l) ==
  /\ pc = "idle" /\ builder # Nil /\ builder.path.kind = "image"
  /\ entry' = "photo"
  /\ called' = Called(m, <<>>, <<>>)
  /\ handle' = "closed"
  /\ clip' = [kind |-> "image",
              size |-> <<width, HeightInRatio(builder.path.size)>>,
              duration |-> 0]
  /\ max_duration' = PhotoMaxDuration(m)
  /\ link' = l
  /\ link_clip_left' = <<>> /\ link_clip_top' = <<>>
  /\ link_clip_width' = DefaultLinkClipWidth
  /\ Fresh
  /\ pc' = "background"
  /\ UNCHANGED <<builder, heap, keeps, first>>

\* build_main called by itself, on a clip its caller made (lines 54-71)
BuildMainCall(c, m, l, left, top, lwidth) ==
  /\ pc = "idle" /\ builder # Nil
  /\ entry' = "build_main"
  /\ called' = Called(m, left, top)
  /\ handle' = None
  /\ clip' = c
  /\ max_duration' = m
  /\ link' = l
  /\ link_clip_left' = left /\ link_clip_top' = top
  /\ link_clip_width' = lwidth
  /\ Fresh
  /\ pc' = "background"
  /\ UNCHANGED <<builder, heap, keeps, first>>

\* an exception leaves build_main and the wrapper that called it
Raise(e) ==
  /\ pc' = "idle" /\ error' = e /\ result' = Nil

\* lines 117-121
BackgroundMissing ==
  /\ pc = "background"
  /\ builder.bgpath # None /\ ~BackgroundExists(builder.bgpath)
  /\ Raise("AssertionError")
  /\ UNCHANGED <<builder, heap, entry, handle, called, args, locals,
                 renders, keeps, first>>

PlaceBackground ==
  /\ pc = "background"
  /\ builder.bgpath # None => BackgroundExists(builder.bgpath)
  /\ clips' = IF builder.bgpath # None THEN <<"background">> ELSE <<>>
  /\ pc' = "primary"
  /\ UNCHANGED <<builder, heap, entry, handle, called, args, stickers,
                 clip_left, clip_top, mention, caption_text, text_clip,
                 link_clip_obj, mentions, duration, destination, paths, i,
                 renders, result, error, keeps, first>>

\* lines 123-131
PlacePrimary ==
  /\ pc = "primary"
  /\ clip_left' = ClipLeft(clip.size)
  /\ clip_top' = ClipTop(clip.size)
  /\ clips' = Append(clips, "media")
  /\ pc' = "caption"
  /\ UNCHANGED <<builder, heap, entry, handle, called, args, stickers,
                 mention, caption_text, text_clip, link_clip_obj, mentions,
                 duration, destination, paths, i, renders, result, error,
                 keeps, first>>

\* lines 133-149
PlaceCaption ==
  /\ pc = "caption"
  /\ LET m == IF builder.mentions # <<>> THEN builder.mentions[1] ELSE None
         t == GetCaptionText(builder.caption, m)
     IN /\ mention' = m
        /\ caption_text' = t
        /\ IF t # ""
             THEN \E tc \in CreateTextClip(t, CaptionMaxWidth, <<>>,
                              Some(CaptionPosTop(clip_top, clip.size))) :
                    /\ text_clip' = tc
                    /\ clips' = IF tc # Nil THEN Append(clips, "caption")
                                ELSE clips
             ELSE text_clip' = Nil /\ clips' = clips
  /\ pc' = "link"
  /\ UNCHANGED <<builder, heap, entry, handle, called, args, stickers,
                 clip_left, clip_top, link_clip_obj, mentions, duration,
                 destination, paths, i, renders, result, error, keeps, first>>

\* StorySticker(...), lines 178-191
LinkStickers(left, top, elem, l, lwidth) ==
  {[x |-> x, y |-> y, width |-> w, height |-> h, type |-> "story_link",
    url |-> l] :
     x \in StickerXs(left), y \in StickerYs(top),
     w \in StickerWidths(elem, lwidth), h \in StickerHeights(elem)}

\* lines 151-192
PlaceLink ==
  /\ pc = "link"
  /\ IF link # ""
       THEN LET left == LinkLeft(link_clip_left, link_clip_width)
                top  == LinkTop(link_clip_top, clip.size)
            IN /\ link_clip_left' = Some(left)
               /\ link_clip_top' = Some(top)
               /\ \E lc \in CreateTextClip(LinkText(link), link_clip_width,
                                           Some(left), Some(top)) :
                    /\ link_clip_obj' = lc
                    /\ IF lc # Nil
                         THEN /\ clips' = Append(clips, "link")
                              /\ \E s \in LinkStickers(left, top, lc, link,
                                                       link_clip_width) :
                                   stickers' = Append(stickers, s)
                         ELSE UNCHANGED <<clips, stickers>>
       ELSE UNCHANGED <<link_clip_left, link_clip_top, link_clip_obj, clips,
                        stickers>>
  /\ pc' = "mention"
  /\ UNCHANGED <<builder, heap, entry, handle, called, clip, max_duration,
                 link, link_clip_width, clip_left, clip_top, mention,
                 caption_text, text_clip, mentions, duration, destination,
                 paths, i, renders, result, error, keeps, first>>

\* lines 194-198
AdjustMention ==
  /\ pc = "mention"
  /\ mentions' = MentionsOut(mention, text_clip)
  /\ heap' = IF MentionsOut(mention, text_clip) # <<>>
               THEN AdjustMentionGeometry(heap, mention, text_clip)
               ELSE heap
  /\ pc' = "duration"
  /\ UNCHANGED <<builder, entry, handle, called, args, clips, stickers,
                 clip_left, clip_top, mention, caption_text, text_clip,
                 link_clip_obj, duration, destination, paths, i, renders,
                 result, error, keeps, first>>

\* lines 200-201
ResolveDuration ==
  /\ pc = "duration"
  /\ duration' = CalculateDuration(clip, max_duration)
  /\ pc' = "compose"
  /\ UNCHANGED <<builder, heap, entry, handle, called, args, clips, stickers,
                 clip_left, clip_top, mention, caption_text, text_clip,
                 link_clip_obj, mentions, destination, paths, i, renders,
                 result, error, keeps, first>>

Range(f) == {f[k] : k \in DOMAIN f}

\* the files that exist: those of the StoryBuild the caller holds on to and
\* those this call has written; the caller has removed the others
FilesOnDisk ==
  (IF first # Nil THEN {first.build.path} \cup Range(first.build.paths)
   ELSE {})
  \cup {renders[k].path : k \in DOMAIN renders}

\* tempfile.mktemp(".mp4"): a name no existing file has (here the least)
Mktemp ==
  CHOOSE n \in 0..Cardinality(FilesOnDisk) :
    n \notin FilesOnDisk /\ \A k \in 0..(n - 1) : k \in FilesOnDisk

\* one write_videofile call: what it was given and whether it succeeded
Rendered(what, start, end, path, ok) ==
  [what |-> what, start |-> start, end |-> end, path |-> path, ok |-> ok]

\* lines 203-206 and 209
RenderFull ==
  /\ pc = "compose"
  /\ destination' = Mktemp
  /\ renders' = Append(renders, Rendered("full", 0, duration, Mktemp, TRUE))
  /\ paths' = <<>>
  /\ i' = 0
  /\ pc' = "split"
  /\ UNCHANGED <<builder, heap, entry, handle, called, args, clips, stickers,
                 clip_left, clip_top, mention, caption_text, text_clip,
                 link_clip_obj, mentions, duration, result, error, keeps,
                 first>>

RenderFullFails ==
  /\ pc = "compose"
  /\ destination' = Mktemp
  /\ renders' = Append(renders, Rendered("full", 0, duration, Mktemp, FALSE))
  /\ Raise("RenderFailure")
  /\ UNCHANGED <<builder, heap, entry, handle, called, args, clips, stickers,
                 clip_left, clip_top, mention, caption_text, text_clip,
                 link_clip_obj, mentions, duration, paths, i, keeps, first>>

\* the for loop of lines 210-218 has another iteration to run
MoreSegments == duration > SegLen /\ i < SegCount(duration)

\* lines 211-218, one iteration
RenderSegment ==
  /\ pc = "split" /\ MoreSegments
  /\ LET start == SegStart(i)
         end   == SegEnd(start, duration)
     IN renders' = Append(renders,
                          Rendered("sub", start, end, Mktemp, TRUE))
  /\ paths' = Append(paths, Mktemp)
  /\ i' = i + 1
  /\ UNCHANGED <<builder, heap, pc, entry, handle, called, args, clips,
                 stickers, clip_left, clip_top, mention, caption_text,
                 text_clip, link_clip_obj, mentions, duration, destination,
                 result, error, keeps, first>>

RenderSegmentFails ==
  /\ pc = "split" /\ MoreSegments
  /\ LET start == SegStart(i)
         end   == SegEnd(start, duration)
     IN renders' = Append(renders,
                          Rendered("sub", start, end, Mktemp, FALSE))
  /\ Raise("RenderFailure")
  /\ UNCHANGED <<builder, heap, entry, handle, called, args, locals, keeps,
                 first>>

StoryBuild(ms, path, ps, ss) ==
  [mentions |-> ms, path |-> path, paths |-> ps, stickers |-> ss]

\* what the caller of the first build holds: the StoryBuild, and the
\* geometry its mention had when the build was returned
Held(build) ==
  [build |-> build,
   geometry |-> IF build.mentions # <<>> THEN heap[build.mentions[1]]
                ELSE Nil]

\* line 220, then lines 247-248 in video()
ReturnBuild ==
  /\ pc = "split" /\ ~MoreSegments
  /\ result' = StoryBuild(mentions, destination, paths, stickers)
  /\ handle' = IF entry = "video" THEN "closed" ELSE handle
  /\ first' = IF keeps /\ first = Nil
                THEN Held(StoryBuild(mentions, destination, paths, stickers))
                ELSE first
  /\ pc' = "idle"
  /\ UNCHANGED <<builder, heap, entry, called, args, locals, renders, error,
                 keeps>>

\* the statements of build_main and the return through the wrapper
Step ==
  \/ BackgroundMissing
  \/ PlaceBackground
  \/ PlacePrimary
  \/ PlaceCaption
  \/ PlaceLink
  \/ AdjustMention
  \/ ResolveDuration
  \/ RenderFull
  \/ RenderFullFails
  \/ RenderSegment
  \/ RenderSegmentFails
  \/ ReturnBuild

Next ==
  \/ \E p \in Files, c \in Captions, ms \in MentionArgs, bg \in BgArgs :
       New(p, c, ms, bg)
  \/ \E m \in MaxDurationArgs, l \in Links : VideoCall(m, l)
  \/ \E m \in MaxDurationArgs, l \in Links : PhotoCall(m, l)
  \/ Step

Spec == Init /\ [][Next]_vars

\* ------------------------------------------------ segmentation of any timeline
\* video(max_duration = d) on one source, for every d up to MaxDuration
SegBuilder == [path |-> VideoA, caption |-> "", mentions |-> <<>>,
               bgpath |-> "bg.png"]

InitSeg ==
  /\ builder = SegBuilder
  /\ heap = [m \in Mentions |-> Nil]
  /\ NoCall
  /\ keeps = FALSE
  /\ first = Nil

NextSeg ==
  \/ \E m \in 1..MaxDuration : VideoCall(m, "")
  \/ PlaceBackground
  \/ PlacePrimary
  \/ PlaceCaption
  \/ PlaceLink
  \/ AdjustMention
  \/ ResolveDuration
  \/ RenderFull
  \/ RenderFullFails
  \/ RenderSegment
  \/ RenderSegmentFails
  \/ ReturnBuild

SpecSeg == InitSeg /\ [][NextSeg]_vars

\* --------------------------------------------------- layout of any geometry
\* build_main called by itself, up to the mention adjustment of line 198
ClipWidths == {360, 719, 720}
ClipHeights == {1, 400, 1098, 1099, 1100, 1101, 1279, 1280, 1400}
LayoutClips ==
  {[kind |-> "video", size |-> <<w, h>>, duration |-> 10] :
     w \in ClipWidths, h \in ClipHeights}
\* link_clip_left and link_clip_top, in half pixels
LinkLefts == {<<>>, Some(-20), Some(0), Some(1), Some(640), Some(1440),
              Some(2000)}
LinkTops == {<<>>, Some(-2), Some(0), Some(2), Some(2480), Some(2600)}
LinkWidths == {400, 401, 720, 800}
LayoutBuilders ==
  {[path |-> VideoA, caption |-> c, mentions |-> ms, bgpath |-> "bg.png"] :
     c \in Captions, ms \in {<<>>, <<"m1">>}}

InitLayout ==
  /\ builder \in LayoutBuilders
  /\ heap = [m \in Mentions |-> Nil]
  /\ NoCall
  /\ keeps = FALSE
  /\ first = Nil

NextLayout ==
  \/ \E c \in LayoutClips, l \in {"", "https://example.com/x"} :
       BuildMainCall(c, 0, l, <<>>, <<>>, DefaultLinkClipWidth)
  \/ \E c \in {VideoA, VideoB}, left \in LinkLefts, top \in LinkTops,
        lwidth \in LinkWidths :
       BuildMainCall(c, 0, "not a url", left, top, lwidth)
  \/ PlaceBackground
  \/ PlacePrimary
  \/ PlaceCaption
  \/ PlaceLink
  \/ AdjustMention

SpecLayout == InitLayout /\ [][NextLayout]_vars

\* ------------------------------------- a caller that keeps its first build
KeepFiles == {VideoB, ImageA}

InitKeep ==
  /\ builder = Nil
  /\ heap = [m \in Mentions |-> Nil]
  /\ NoCall
  /\ keeps = TRUE
  /\ first = Nil

NextKeep ==
  \/ \E p \in KeepFiles, ms \in {<<>>, Some(<<"m1">>)},
        bg \in {None, "nobg.png"} : New(p, "", ms, bg)
  \/ \E m \in {0, 10} : VideoCall(m, "")
  \/ \E m \in {0, 10} : PhotoCall(m, "")
  \/ Step

SpecKeep == InitKeep /\ [][NextKeep]_vars

\* ================================================================ claims
\* ceil(d / n), stated without the code's own division-and-remainder form
CeilDiv(d, n) == (d + n - 1) \div n

\* the segment renders of the running call, in the order they were made
Segments == [k \in 1..(Len(renders) - 1) |-> renders[k + 1]]

RECURSIVE SumLengths(_)
SumLengths(segs) ==
  IF segs = <<>> THEN 0
  ELSE (segs[1].end - segs[1].start) + SumLengths(Tail(segs))

\* the loop of lines 210-218 has run to its end
LoopDone == pc \in {"split", "idle"} /\ error = None /\ renders # <<>>
            /\ ~MoreSegments

\* C1: for every integer duration > 15 the segment loop produces exactly
\* ceil(duration / 15) ranges [start, end) with start = i * 15; the first
\* starts at 0, each starts where the one before ends, each is between 1
\* and 15 long, the last ends at duration, the lengths sum to duration, and
\* paths holds one entry per range, in index order.
C1_Segmentation ==
  (pc \in {"split", "idle"} /\ renders # <<>> /\ duration > 15) =>
    /\ \A k \in DOMAIN Segments :
         /\ Segments[k].what = "sub"
         /\ Segments[k].start = (k - 1) * 15
         /\ k > 1 => Segments[k].start = Segments[k - 1].end
         /\ Segments[k].end - Segments[k].start >= 1
         /\ Segments[k].end - Segments[k].start <= 15
         /\ Segments[k].end <= duration
    /\ LoopDone =>
         /\ Len(Segments) = CeilDiv(duration, 15)
         /\ Segments[1].start = 0
         /\ Segments[Len(Segments)].end = duration
         /\ SumLengths(Segments) = duration
         /\ Len(paths) = Len(Segments)
         /\ \A k \in DOMAIN paths : paths[k] = Segments[k].path
         /\ \A j, k \in DOMAIN paths : j # k => paths[j] # paths[k]
         /\ result # Nil => result.paths = paths

C1_Witness ==
  /\ pc = "idle" /\ result # Nil /\ duration = 31
  /\ Len(result.paths) = 3
  /\ renders[4].start = 30 /\ renders[4].end = 31

\* the call has got past line 201, or has ended after getting there
DurationResolved ==
  \/ pc \in {"compose", "split"}
  \/ pc = "idle" /\ renders # <<>>

\* C2: the resolved duration is, for every integer max_duration given to
\* video(): max_duration if it is > 0, else the duration of the source; given
\* to photo(): max_duration if it is > 0, else 15.  That value is the one
\* the full render gets and the one compared against 15 for segmentation.
C2_Duration ==
  (entry \in {"video", "photo"} /\ DurationResolved) =>
    /\ duration = IF called.max_duration > 0 THEN called.max_duration
                  ELSE IF entry = "video" THEN builder.path.duration
                  ELSE 15
    /\ renders # <<>> => renders[1].start = 0 /\ renders[1].end = duration
    /\ Len(renders) > 1 => duration > 15
    /\ (pc = "idle" /\ result # Nil) => (result.paths # <<>> <=> duration > 15)

C2_Witness ==
  /\ entry = "photo" /\ called.max_duration < 0
  /\ pc = "idle" /\ result # Nil /\ duration = 15

\* C3: after video() or photo() has ended, by returning a StoryBuild or by a
\* failure raised inside build_main, the source file handle opened for the
\* call has been closed.
C3_HandleReleased ==
  (pc = "idle" /\ entry \in {"video", "photo"}) => handle = "closed"

\* C4: the returned mentions hold a mention only if a caption text element
\* was rendered and the mention's geometry was set from that element in this
\* build; with no mention, no caption text or no text element they are
\* empty; they never hold more than one mention; and with an empty caption
\* and no mention no caption layer is in the composition.
C4_Mentions ==
  (pc \in {"duration", "compose", "split"} \/ (pc = "idle" /\ entry # None))
  =>
    /\ mentions # <<>> =>
         /\ Len(mentions) = 1
         /\ builder.mentions # <<>> /\ mentions[1] = builder.mentions[1]
         /\ text_clip # Nil
         /\ \E k \in DOMAIN clips : clips[k] = "caption"
         /\ heap[mentions[1]] =
              [top |-> text_clip.pos_top, size |-> text_clip.size]
    /\ (builder.mentions = <<>> \/ caption_text = "" \/ text_clip = Nil)
         => mentions = <<>>
    /\ (builder.caption = "" /\ builder.mentions = <<>>)
         => \A k \in DOMAIN clips : clips[k] # "caption"
    /\ result # Nil => result.mentions = mentions

C4_Witness ==
  /\ pc = "idle" /\ result # Nil
  /\ result.mentions = <<"m1">>
  /\ builder.caption = "" /\ builder.mentions = <<"m1", "m2">>
  /\ heap["m1"] # Nil /\ heap["m2"] = Nil

\* C7: when a background path is given and the file does not exist, the
\* call fails with the assertion error of line 119 (InvalidPathError in the
\* words of the specification) before any render is started, and no
\* StoryBuild is returned.
InvalidPathError == "AssertionError"

BackgroundIsMissing ==
  builder # Nil /\ builder.bgpath # None /\ builder.bgpath # "bg.png"

C8_WitnessShort ==
  /\ pc = "idle" /\ result # Nil /\ duration = 15 /\ result.paths = <<>>

\* ---- sticker geometry (half pixels in, units of 1e-7 out)
\* v / dim in units of 1e-7 is the fraction Num7(v2, dim) / Den7(dim)
Den7(dim) == (2 * dim) \div GCD(Pow7, 2 * dim)
Num7(v2, dim) == v2 * (Pow7 \div GCD(Pow7, 2 * dim))
Abs(n) == IF n < 0 THEN 0 - n ELSE n
\* r is v / dim exactly
IsExact7(r, v2, dim) == r * Den7(dim) = Num7(v2, dim)
\* r is v / dim rounded to 7 decimal places
IsRounded7(r, v2, dim) == 2 * Abs(r * Den7(dim) - Num7(v2, dim)) <= Den7(dim)

\* the link element's pixel rectangle lies inside the canvas
LinkInsideCanvas ==
  /\ link_clip_left[1] >= 0 /\ link_clip_top[1] >= 0
  /\ link_clip_left[1] + 2 * link_clip_obj.size[1] <= 2 * width
  /\ link_clip_top[1] + 2 * link_clip_obj.size[2] <= 2 * height

PrimaryPlaced == pc \in {"caption", "link", "mention", "duration"}

\* C6: a primary element of width w and height h <= 1280 is placed at
\* left = (720 - w) / 2 and at top = (1280 - h) / 2 when that is <= 90, and
\* at top = (1280 - h) / 2 - 50 when it is > 90; the caption's vertical
\* anchor is the placed top + h + 50.
C6_PrimaryPlacement ==
  (PrimaryPlaced /\ clip.size[2] <= 1280) =>
    LET w == clip.size[1]
        h == clip.size[2]
    IN /\ clip_left = 720 - w
       /\ (1280 - h <= 2 * 90) => clip_top = 1280 - h
       /\ (1280 - h > 2 * 90) => clip_top = (1280 - h) - 2 * 50
       /\ text_clip # Nil => text_clip.pos_top = Some(clip_top + 2 * h + 2 * 50)
       /\ \E k \in DOMAIN clips : clips[k] = "media"

\* centring gives exactly 90 and the element stays there, caption rendered
C6_Witness ==
  /\ PrimaryPlaced /\ clip.size = <<719, 1100>>
  /\ clip_top = 180 /\ clip_left = 1
  /\ text_clip # Nil /\ text_clip.pos_top = Some(2480)

C6_WitnessNudged ==
  /\ PrimaryPlaced /\ clip.size[2] = 1099 /\ clip_top = 81

C10_WitnessTop ==
  /\ stickers # <<>> /\ called.left = Some(1) /\ called.top = <<>>
  /\ link_clip_top = Some(360)

\* C9: a StoryBuild a call has returned is not changed by later calls, on
\* the same builder or on another one given the same mentions: the mention
\* it holds still has the geometry it had when the build was returned.
C9_Independent ==
  (first # Nil /\ first.build.mentions # <<>>) =>
    heap[first.build.mentions[1]] = first.geometry

====
